---------------------------- MODULE Spec2Model ----------------------------
(***************************************************************************)
(* Model of src/src/dp_tools/calc_dp_2.rs: the change-point ordering rule  *)
(* (order_change_point), the pairwise score table (DictTT), the explicit   *)
(* sequence scorer (DictToFunc::sum_frol_cp) and the memoized dynamic      *)
(* programming solver (CalcDP).                                            *)
(*                                                                         *)
(* Rust values are modelled as follows.                                    *)
(*   Result<T, CalcDpError>  [kind |-> "ok", val |-> v]                    *)
(*                           [kind |-> "err", message |-> m, args |-> a]   *)
(*   a panic of the thread   [kind |-> "panic"]                            *)
(*   Option<T>               [some |-> FALSE] / [some |-> TRUE, cell |-> c]*)
(*   Vec<T>                  a sequence; Rust index i is TLA+ index i + 1  *)
(*   (Tau, NumChg, Val)      a 3-tuple <<p, k, v>> (.0, .1, .2 = [1..3])   *)
(* A CalcDpError carries the message template of the format! call and the  *)
(* numbers interpolated into it.                                           *)
(***************************************************************************)
EXTENDS Integers, Sequences, FiniteSets, TLC

\* Largest t_max the host program passes to calc_value_all / calc_memo_all.
MaxT == 7

\* Scores returned by the evaluator range over 0 .. NumScores - 1.
NumScores == 3

\* The evaluator rejects segments shorter than data.min_len, 1 .. MaxMinLen.
MaxMinLen == 3

\* Longest change-point sequence handed to sum_frol_cp by the host program.
MaxLen == 2

\* Tau is an unsigned integer alias imported from process_param; its width is
\* not fixed by this repository.  Wrapping arithmetic is modulo TauModulus.
TauModulus == 2 ^ 16

---------------------------------------------------------------------------
(* Result values *)

Ok(v) == [kind |-> "ok", val |-> v]

Err(m, a) == [kind |-> "err", message |-> m, args |-> a]

Panic == [kind |-> "panic"]

NoResult == [kind |-> "none"]

None == [some |-> FALSE]

Some(c) == [some |-> TRUE, cell |-> c]

\* v[i] of a Rust Vec (0-based).
At(v, i) == v[i + 1]

---------------------------------------------------------------------------
(* order_change_point *)

OrderChangePointLax(t_k_1, t_k) ==
    IF t_k = 0
    THEN Err("Index tau_{k} must be greater than 0.", <<t_k>>)
    ELSE IF (t_k_1 > (t_k - 1)) /\ ~(t_k = 1 /\ t_k_1 = 0)
    THEN Err("Index tau_{k} must be greater than tau_{k-1} + 1", <<t_k, t_k_1>>)
    ELSE Ok(<<>>)

OrderChangePoint(t_k_1, t_k) ==
    IF t_k = 0
    THEN Err("Index tau_{k} must be greater than 0.", <<t_k>>)
    ELSE IF (t_k_1 >= (t_k - 1)) /\ ~(t_k = 1 /\ t_k_1 = 0)
    THEN Err("Index tau_{k} must be greater than tau_{k-1} + 1", <<t_k, t_k_1>>)
    ELSE Ok(<<>>)

---------------------------------------------------------------------------
(* CalcTT::calc_value: the evaluator supplied by the caller.  The trait    *)
(* method has no body in this repository; the model instantiates it with a *)
(* family of evaluators indexed by the data: the score of a segment is a   *)
(* bilinear form of its two end points reduced modulo NumScores, and the   *)
(* evaluator fails on a segment shorter than data.min_len, the segments    *)
(* that start at the virtual start 0 excepted when data.first_any is set.  *)
(* The family holds the constant evaluators (a = b = c = 0); the           *)
(* evaluators that can fail (min_len > 1) are taken with constant scores.  *)

DataSet ==
    {dt \in [a : 0 .. NumScores - 1, b : 0 .. NumScores - 1,
             c : 0 .. NumScores - 1, d : 0 .. NumScores - 1,
             min_len : 1 .. MaxMinLen, first_any : BOOLEAN] :
        /\ dt.min_len > 1 => (dt.a = 0 /\ dt.b = 0 /\ dt.c = 0)
        /\ dt.min_len = 1 => ~dt.first_any}

CalcValue(dt, t_k_1, t_k) ==
    IF t_k - t_k_1 < dt.min_len /\ ~(dt.first_any /\ t_k_1 = 0)
    THEN Err("calc_value: segment too short", <<t_k_1, t_k>>)
    ELSE Ok((dt.a * t_k_1 + dt.b * t_k + dt.c * t_k_1 * t_k + dt.d) % NumScores)

---------------------------------------------------------------------------
(* DictTT::calc_value_all *)

\* The inner map/collect of one parallel unit: the scores of (t_k_1, t_k)
\* for t_k = t_k_1 + 2 ..= tmax in increasing order, or the first failure.
RECURSIVE CalcValueRowFrom(_, _, _, _, _)
CalcValueRowFrom(dt, t_k_1, t_k, tmax, acc) ==
    IF t_k > tmax
    THEN Ok(acc)
    ELSE LET v == CalcValue(dt, t_k_1, t_k)
         IN  IF v.kind = "ok"
             THEN CalcValueRowFrom(dt, t_k_1, t_k + 1, tmax, Append(acc, v.val))
             ELSE v

CalcValueRow(dt, t_k_1, tmax) == CalcValueRowFrom(dt, t_k_1, t_k_1 + 2, tmax, <<>>)

\* The outer range 0..(t_max - 1) of parallel units.
Units(tmax) == 0 .. tmax - 2

---------------------------------------------------------------------------
(* DictTT::value_tt *)

\* Lines 86-93: the second index.  index_tt is the value the subtraction
\* produced (already wrapped when it underflowed).
ValueTTSecond(vals_tau_k_1, index_tt, t_k_1, t_k) ==
    IF Len(vals_tau_k_1) < index_tt
    THEN Err("Index tau_{k} must be greater than tau_{k-1} + 1", <<t_k, t_k_1>>)
    ELSE IF index_tt >= Len(vals_tau_k_1)
    THEN Panic
    ELSE Ok(At(vals_tau_k_1, index_tt))

\* overflow_checks is the build's setting (on in a debug build, off in a
\* release build): with it the underflow of t_k - t_k_1 - 2 panics, without
\* it the difference wraps.
ValueTT(vals_all, t_k_1, t_k, overflow_checks) ==
    LET ord == OrderChangePoint(t_k_1, t_k)
    IN  IF ord.kind = "err"
        THEN ord
        ELSE IF Len(vals_all) < t_k_1
        THEN Err("Index tau_{k - 1} is out of range.", <<t_k_1>>)
        ELSE IF t_k_1 >= Len(vals_all)
        THEN Panic
        ELSE IF t_k - t_k_1 - 2 < 0
        THEN IF overflow_checks
             THEN Panic
             ELSE ValueTTSecond(At(vals_all, t_k_1),
                                (t_k - t_k_1 - 2) % TauModulus, t_k_1, t_k)
        ELSE ValueTTSecond(At(vals_all, t_k_1), t_k - t_k_1 - 2, t_k_1, t_k)

---------------------------------------------------------------------------
(* DictToFunc::sum_frol_cp *)

\* cp_copy: the change points with 0 inserted in front and the last popped.
CpCopy(change_points) ==
    IF change_points = <<>>
    THEN <<>>
    ELSE <<0>> \o SubSeq(change_points, 1, Len(change_points) - 1)

\* The zip/map/collect of lines 146-149 followed by the sum of lines 150-151,
\* from pair j on: the first lookup that does not succeed ends the scan.
RECURSIVE SumFrolCpFrom(_, _, _, _, _)
SumFrolCpFrom(vals_all, change_points, j, overflow_checks, total) ==
    IF j > Len(change_points)
    THEN Ok(total)
    ELSE LET v == ValueTT(vals_all, CpCopy(change_points)[j], change_points[j],
                          overflow_checks)
         IN  IF v.kind = "ok"
             THEN SumFrolCpFrom(vals_all, change_points, j + 1, overflow_checks,
                                total + v.val)
             ELSE v

SumFrolCp(vals_all, change_points, overflow_checks) ==
    SumFrolCpFrom(vals_all, change_points, 1, overflow_checks, 0)

---------------------------------------------------------------------------
(* CalcDP: the memo table and its accessors *)

CalcMaxKCeil(tmax) == tmax \div 2

\* Called with tmax >= 1 only: check_idx_memo rejects t = 0 first.
CalcMaxK(tmax) == (tmax - 1) \div 2

\* Lines 173-174: row i of the fresh memo holds t_max - 2 i + 1 empty cells.
NewMemo(tmax) ==
    [i \in 1 .. CalcMaxK(tmax) + 1 |->
        [j \in 1 .. (tmax - 2 * (i - 1) + 1) |-> None]]

CheckIdxMemoNoKCheck(t, k, memo) ==
    IF t > Len(At(memo, 0)) - 1
    THEN Err("Time step t is out of range.", <<t>>)
    ELSE IF t = 0
    THEN Err("Time step must be greater than 0", <<>>)
    ELSE Ok(<<>>)

\* A check without the upper bound on t.
CheckIdxMemoNoUpper(t, k, memo) ==
    IF t = 0
    THEN Err("Time step must be greater than 0", <<>>)
    ELSE IF k > CalcMaxK(t)
    THEN Err("The number of change point k must be less than ceil( (t-1)/2 ).",
             <<k, CalcMaxK(t)>>)
    ELSE Ok(<<>>)

CheckIdxMemo(t, k, memo) ==
    IF t > Len(At(memo, 0)) - 1
    THEN Err("Time step t is out of range.", <<t>>)
    ELSE IF t = 0
    THEN Err("Time step must be greater than 0", <<>>)
    ELSE IF k > CalcMaxK(t)
    THEN Err("The number of change point k must be less than ceil( (t-1)/2 ).",
             <<k, CalcMaxK(t)>>)
    ELSE Ok(<<>>)

\* memo[k][t - 2k] is inside the table.  An index outside it panics: either
\* the subtraction underflows, or the slice index is out of bounds.
InMemo(t, k, memo) ==
    /\ k + 1 <= Len(memo)
    /\ t - 2 * k >= 0
    /\ t - 2 * k + 1 <= Len(At(memo, k))

\* A lookup that misses every cell.
GetFromMemoMiss(t, k, memo) ==
    LET chk == CheckIdxMemo(t, k, memo)
    IN  IF chk.kind = "err"
        THEN [out |-> chk, reads |-> <<>>]
        ELSE IF ~InMemo(t, k, memo)
        THEN [out |-> Panic, reads |-> <<>>]
        ELSE [out |-> Ok(None), reads |-> << <<k, t - 2 * k>> >>]

\* The result, and the memo coordinates <<k, t - 2k>> the call indexed.
GetFromMemo(t, k, memo) ==
    LET chk == CheckIdxMemo(t, k, memo)
    IN  IF chk.kind = "err"
        THEN [out |-> chk, reads |-> <<>>]
        ELSE IF ~InMemo(t, k, memo)
        THEN [out |-> Panic, reads |-> <<>>]
        ELSE [out |-> Ok(At(At(memo, k), t - 2 * k)), reads |-> << <<k, t - 2 * k>> >>]

\* The result and the memo after the call.
SetFromMemo(t, val, memo) ==
    LET k == val[2]
        chk == CheckIdxMemo(t, k, memo)
    IN  IF chk.kind = "err"
        THEN [out |-> chk, memo |-> memo]
        ELSE IF ~InMemo(t, k, memo)
        THEN [out |-> Panic, memo |-> memo]
        ELSE [out |-> Ok(val),
              memo |-> [memo EXCEPT ![k + 1][t - 2 * k + 1] = Some(val)]]

\* Lines 344-351: the reduce over the candidates, scanning left to right.
RECURSIVE ReduceMaxStrict(_, _, _)
ReduceMaxStrict(vals, j, acc) ==
    IF j > Len(vals)
    THEN acc
    ELSE ReduceMaxStrict(vals, j + 1, IF acc[3] < vals[j][3] THEN vals[j] ELSE acc)

RECURSIVE ReduceMax(_, _, _)
ReduceMax(vals, j, acc) ==
    IF j > Len(vals)
    THEN acc
    ELSE ReduceMax(vals, j + 1, IF acc[3] <= vals[j][3] THEN vals[j] ELSE acc)

\* A selection that takes the first candidate without comparing.
OpMaxValFirst(vals) ==
    IF vals = <<>> THEN None ELSE Some(vals[1])

\* op_max_val: None for no candidate.
OpMaxVal(vals) ==
    IF vals = <<>> THEN None ELSE Some(ReduceMax(vals, 2, vals[1]))

---------------------------------------------------------------------------
(* CalcDP::get_value and CalcDP::get_value_history *)

GetValue(t, k, memo) ==
    LET g == GetFromMemo(t, k, memo)
    IN  IF g.out.kind # "ok"
        THEN g
        ELSE IF g.out.val.some
        THEN [out |-> Ok(g.out.val.cell[3]), reads |-> g.reads]
        ELSE [out |-> Err("Value has not calculated yet.", <<>>), reads |-> g.reads]

\* The while loop of lines 206-223.  The memo is not modified by the loop, so
\* a loop that runs more iterations than the memo has cells never ends: the
\* model reports it as [kind |-> "diverges"].
MemoSize(memo) == Len(memo) * Len(At(memo, 0))

\* Lines 219-221: the count to look up next.
NextKKeep(memo_tk, now_k) == IF memo_tk[2] # 0 THEN memo_tk[2] ELSE now_k

NextK(memo_tk, now_k) == IF memo_tk[2] # 0 THEN memo_tk[2] - 1 ELSE now_k

RECURSIVE GetValueHistoryLoop(_, _, _, _, _, _)
GetValueHistoryLoop(now_t, now_k, memo, res, reads, fuel) ==
    IF ~(now_t > 0)
    THEN [out |-> Ok(res), reads |-> reads]
    ELSE IF fuel = 0
    THEN [out |-> [kind |-> "diverges"], reads |-> reads]
    ELSE LET g == GetFromMemo(now_t, now_k, memo)
         IN  IF g.out.kind # "ok"
             THEN [out |-> g.out, reads |-> reads \o g.reads]
             ELSE IF ~g.out.val.some
             THEN [out |-> Err("Uncalculated value exist.", <<>>),
                   reads |-> reads \o g.reads]
             ELSE LET memo_tk == g.out.val.cell
                  IN  GetValueHistoryLoop(
                          memo_tk[1], NextK(memo_tk, now_k), memo, Append(res, memo_tk), reads \o g.reads, fuel - 1)

GetValueHistory(t, k, memo) ==
    GetValueHistoryLoop(t, k, memo, <<>>, <<>>, MemoSize(memo) + 1)

---------------------------------------------------------------------------
(* The state of a host program that owns one evaluator, builds the pairwise *)
(* table with calc_value_all, builds the memo with calc_memo_all, stores    *)
(* both (value_tt_all and memo_all return them) and then queries them.      *)

VARIABLES
    t_max,      \* the last time step handed to calc_value_all and calc_memo_all
    data,       \* the data the evaluator reads
    phase,      \* "build": calc_value_all runs; "built": it returned;
                \* "fill": calc_memo_all runs; "ready": it returned
    tt_units,   \* calc_value_all: the result of each parallel unit t_k_1
    tt_result,  \* what calc_value_all returned (value_tt_all when ok)
    memo,       \* calc_memo_all: its local memo
    root_k,     \* calc_memo_all: the k of its for loop
    stack,      \* the frames of the nested calc_memo calls, innermost last
    ret,        \* the result a calc_memo call that just returned hands back
    dp_result,  \* what calc_memo_all returned (memo_all when ok)
    effect,     \* the calc_value call and the set_from_memo call of the last
                \* step of calc_memo_all
    res         \* the last query and its result

vars == <<t_max, data, phase, tt_units, tt_result, memo, root_k, stack, ret,
          dp_result, effect, res>>

\* A step that neither calls calc_value nor set_from_memo.
NoEffect == [eval |-> <<>>, set |-> <<>>]

\* The call calc_value(data, t_k_1, t_k) and what it returned.
Evaluated(t_k_1, t_k, r) == <<t_k_1, t_k, r>>

\* The call set_from_memo(t, val, memo): the cell it addresses is (t, val.1).
Stored(t, val) == <<t, val[2]>>

\* A fresh calc_memo(t, k) call: the loop index i is set when the call passes
\* its index check with k > 0, and the candidates vals grow in its for loop.
Frame(t, k) == [t |-> t, k |-> k, pc |-> "enter", i |-> 0, vals |-> <<>>]

Top == stack[Len(stack)]

Init ==
    /\ t_max \in 1 .. MaxT
    /\ data \in DataSet
    /\ phase = "build"
    /\ tt_units = [u \in Units(t_max) |-> NoResult]
    /\ tt_result = NoResult
    /\ memo = <<>>
    /\ root_k = 0
    /\ stack = <<>>
    /\ ret = NoResult
    /\ dp_result = NoResult
    /\ effect = NoEffect
    /\ res = [op |-> "none", args |-> <<>>, out |-> NoResult, reads |-> <<>>]

---------------------------------------------------------------------------
(* calc_value_all: one rayon unit per t_k_1, run in any order *)

CalcValueAllUnit(u) ==
    /\ phase = "build"
    /\ tt_units[u].kind = "none"
    /\ tt_units' = [tt_units EXCEPT ![u] = CalcValueRow(data, u, t_max)]
    /\ UNCHANGED <<t_max, data, phase, tt_result, memo, root_k, stack, ret,
                   dp_result, effect, res>>

\* The table with its rows in the reverse order of t_k_1.
AssembleReversed(units, tmax) ==
    IF tmax < 2 THEN <<>> ELSE [r \in 1 .. tmax - 1 |-> units[tmax - 1 - r].val]

\* The table assembled from the units, rows in the order of t_k_1.
Assemble(units, tmax) ==
    IF tmax < 2 THEN <<>> ELSE [r \in 1 .. tmax - 1 |-> units[r - 1].val]

\* The outer collect: the table when every unit succeeded; the error of one
\* failed unit otherwise (the collect may stop early once a unit has failed).
\* The collect consumes the results of the units.
CalcValueAllCollect ==
    /\ phase = "build"
    /\ \/ /\ \A u \in Units(t_max) : tt_units[u].kind = "ok"
          /\ tt_result' = Ok(Assemble(tt_units, t_max))
       \/ \E u \in Units(t_max) :
              /\ tt_units[u].kind = "err"
              /\ tt_result' = tt_units[u]
    /\ phase' = "built"
    /\ tt_units' = [u \in Units(t_max) |-> NoResult]
    /\ UNCHANGED <<t_max, data, memo, root_k, stack, ret, dp_result, effect, res>>

---------------------------------------------------------------------------
(* calc_memo_all and the recursion of calc_memo *)

\* The innermost call returns r to its caller.
Return(r) ==
    /\ stack' = SubSeq(stack, 1, Len(stack) - 1)
    /\ ret' = r

\* Lines 171-178: allocate the memo and make the first root call.
CalcMemoAll ==
    /\ phase = "built"
    /\ phase' = "fill"
    /\ memo' = NewMemo(t_max)
    /\ root_k' = 0
    /\ stack' = <<Frame(t_max, 0)>>
    /\ UNCHANGED <<t_max, data, tt_units, tt_result, ret, dp_result, effect, res>>

\* A loop that skips its first candidate.
LoopStartLate(k) == k * 2

\* Line 328: the first candidate i of the for loop of calc_memo(t, k).
LoopStart(k) == k * 2 - 1

\* A loop that goes on to the candidate t - 1.
LoopEndLate(t) == t

\* A loop that stops before its last candidate.
LoopEndEarly(t) == t - 2

\* Line 328: the exclusive end of the for loop of calc_memo(t, k).
LoopEnd(t) == t - 1

\* Line 310: the index check on entry.
CalcMemoCheck ==
    /\ phase = "fill"
    /\ stack # <<>>
    /\ Top.pc = "enter"
    /\ LET chk == CheckIdxMemo(Top.t, Top.k, memo)
       IN  IF chk.kind # "ok"
           THEN Return(chk)
           ELSE /\ stack' = [stack EXCEPT ![Len(stack)] =
                        [@ EXCEPT !.pc = IF Top.k = 0 THEN "base" ELSE "loop",
                                  !.i = IF Top.k = 0 THEN 0 ELSE LoopStart(Top.k)]]
                /\ UNCHANGED ret
    /\ effect' = NoEffect
    /\ UNCHANGED <<t_max, data, phase, tt_units, tt_result, memo, root_k,
                   dp_result, res>>

\* Lines 313-322: k = 0.
CalcMemoBase ==
    /\ phase = "fill"
    /\ stack # <<>>
    /\ Top.pc = "base"
    /\ LET g == GetFromMemo(Top.t, Top.k, memo).out
       IN  IF g.kind # "ok"
           THEN Return(g) /\ UNCHANGED memo /\ effect' = NoEffect
           ELSE IF g.val.some
           THEN Return(Ok(g.val.cell)) /\ UNCHANGED memo /\ effect' = NoEffect
           ELSE LET eval == CalcValue(data, 0, Top.t)
                IN  IF eval.kind # "ok"
                    THEN /\ Return(eval)
                         /\ UNCHANGED memo
                         /\ effect' = [eval |-> Evaluated(0, Top.t, eval), set |-> <<>>]
                    ELSE LET res_tk == <<0, 0, eval.val>>
                             s == SetFromMemo(Top.t, res_tk, memo)
                         IN  /\ Return(s.out)
                             /\ memo' = s.memo
                             /\ effect' = [eval |-> Evaluated(0, Top.t, eval),
                                           set |-> Stored(Top.t, res_tk)]
    /\ UNCHANGED <<t_max, data, phase, tt_units, tt_result, root_k, dp_result, res>>

\* Lines 337-338: the sum of the two values.
EvalDropPrev(max_k_1, val_tt) == val_tt

Eval(max_k_1, val_tt) == max_k_1 + val_tt

\* Lines 336-340: the candidate of predecessor i, given the cell of (i, k - 1).
Candidate(tpl_mk1) ==
    LET val_tt == CalcValue(data, Top.i, Top.t)
    IN  /\ effect' = [eval |-> Evaluated(Top.i, Top.t, val_tt), set |-> <<>>]
        /\ IF val_tt.kind # "ok"
           THEN Return(val_tt)
           ELSE /\ stack' = [stack EXCEPT ![Len(stack)] =
                        [@ EXCEPT !.pc = "loop",
                                  !.i = Top.i + 1,
                                  !.vals = Append(Top.vals,
                                       <<Top.i, Top.k, Eval(tpl_mk1[3], val_tt.val)>>)]]
                /\ ret' = NoResult

\* Lines 328-341: one iteration whose cell (i, k - 1) is read from the memo,
\* or the start of the recursive call that computes it.
CalcMemoLoop ==
    /\ phase = "fill"
    /\ stack # <<>>
    /\ Top.pc = "loop"
    /\ Top.i < LoopEnd(Top.t)
    /\ LET g == GetFromMemo(Top.i, Top.k - 1, memo).out
       IN  IF g.kind # "ok"
           THEN Return(g) /\ effect' = NoEffect
           ELSE IF g.val.some
           THEN Candidate(g.val.cell)
           ELSE /\ stack' = Append([stack EXCEPT ![Len(stack)].pc = "wait"],
                                   Frame(Top.i, Top.k - 1))
                /\ UNCHANGED ret
                /\ effect' = NoEffect
    /\ UNCHANGED <<t_max, data, phase, tt_units, tt_result, memo, root_k,
                   dp_result, res>>

\* A caller that drops the failed candidate and goes on with the next one.
CalcMemoResumeSkip ==
    /\ phase = "fill"
    /\ stack # <<>>
    /\ Top.pc = "wait"
    /\ ret.kind # "none"
    /\ IF ret.kind # "ok"
       THEN /\ stack' = [stack EXCEPT ![Len(stack)] =
                    [@ EXCEPT !.pc = "loop", !.i = Top.i + 1]]
            /\ ret' = NoResult
            /\ effect' = NoEffect
       ELSE Candidate(ret.val)
    /\ UNCHANGED <<t_max, data, phase, tt_units, tt_result, memo, root_k,
                   dp_result, res>>

\* Line 332: the recursive call returned.
CalcMemoResume ==
    /\ phase = "fill"
    /\ stack # <<>>
    /\ Top.pc = "wait"
    /\ ret.kind # "none"
    /\ IF ret.kind # "ok"
       THEN Return(ret) /\ effect' = NoEffect
       ELSE Candidate(ret.val)
    /\ UNCHANGED <<t_max, data, phase, tt_units, tt_result, memo, root_k,
                   dp_result, res>>

\* Lines 343-360: the loop is over; select the best candidate and store it.
CalcMemoSelect ==
    /\ phase = "fill"
    /\ stack # <<>>
    /\ Top.pc = "loop"
    /\ ~(Top.i < LoopEnd(Top.t))
    /\ LET op_max_val == OpMaxVal(Top.vals)
       IN  IF ~op_max_val.some
           THEN /\ Return(Err("Failed to compute dynamic programming memo.", <<>>))
                /\ UNCHANGED memo
                /\ effect' = NoEffect
           ELSE LET s == SetFromMemo(Top.t, op_max_val.cell, memo)
                IN  /\ Return(s.out)
                    /\ memo' = s.memo
                    /\ effect' = [eval |-> <<>>, set |-> Stored(Top.t, op_max_val.cell)]
    /\ UNCHANGED <<t_max, data, phase, tt_units, tt_result, root_k, dp_result, res>>

\* Lines 177-181: a root call returned; fail, go on with the next k, or
\* return the memo.
CalcMemoAllNext ==
    /\ phase = "fill"
    /\ stack = <<>>
    /\ ret.kind # "none"
    /\ IF ret.kind # "ok"
       THEN /\ dp_result' = ret
            /\ phase' = "ready"
            /\ memo' = <<>>
            /\ UNCHANGED <<root_k, stack>>
       ELSE IF root_k = CalcMaxK(t_max)
       THEN /\ dp_result' = Ok(memo)
            /\ phase' = "ready"
            /\ memo' = <<>>
            /\ UNCHANGED <<root_k, stack>>
       ELSE /\ root_k' = root_k + 1
            /\ stack' = <<Frame(t_max, root_k + 1)>>
            /\ UNCHANGED <<dp_result, phase, memo>>
    /\ ret' = NoResult
    /\ effect' = NoEffect
    /\ UNCHANGED <<t_max, data, tt_units, tt_result, res>>

---------------------------------------------------------------------------
(* Queries of the host program on what it stored *)

Unchanged == UNCHANGED <<t_max, data, phase, tt_units, tt_result, memo, root_k,
                         stack, ret, dp_result, effect>>

NoQuery == [op |-> "none", args |-> <<>>, out |-> NoResult, reads |-> <<>>]

\* The host program makes its next query once it has dropped the last result.
Answer(op, args, r) ==
    res' = [op |-> op, args |-> args, out |-> r.out, reads |-> r.reads]

Discard ==
    /\ res.op # "none"
    /\ res' = NoQuery
    /\ Unchanged

\* The arguments range from 0 to one past the end of the tables.
Times == 0 .. t_max + 1

Counts == 0 .. CalcMaxK(t_max) + 1

OrderChangePointQuery ==
    /\ phase = "ready"
    /\ res.op = "none"
    /\ \E t_k_1 \in Times, t_k \in Times :
           Answer("order_change_point", <<t_k_1, t_k>>,
                  [out |-> OrderChangePoint(t_k_1, t_k), reads |-> <<>>])
    /\ Unchanged

\* calc_max_k(0) underflows; the host program calls it with t >= 1.
CalcMaxKQuery ==
    /\ phase = "ready"
    /\ res.op = "none"
    /\ \E t \in Times \ {0} :
           Answer("calc_max_k", <<t>>, [out |-> Ok(CalcMaxK(t)), reads |-> <<>>])
    /\ Unchanged

\* The build's overflow-checks setting is chosen with the call: nothing the
\* program stores depends on it.
ValueTTQuery ==
    /\ phase = "ready"
    /\ res.op = "none"
    /\ tt_result.kind = "ok"
    /\ \E t_k_1 \in Times, t_k \in Times, overflow_checks \in BOOLEAN :
           Answer("value_tt", <<t_k_1, t_k>>,
                  [out |-> ValueTT(tt_result.val, t_k_1, t_k, overflow_checks),
                   reads |-> <<>>])
    /\ Unchanged

\* The sequences the host program scores: every sequence of at most two time
\* steps (a pair in either order), and every longer sequence up to MaxLen
\* that never steps back (it may repeat a time step or space two too closely).
RECURSIVE NonDecreasing(_)
NonDecreasing(n) ==
    IF n = 0
    THEN {<<>>}
    ELSE {Append(p[1], p[2]) :
            p \in {q \in NonDecreasing(n - 1) \X Times :
                      q[1] = <<>> \/ q[1][Len(q[1])] <= q[2]}}

ChangePointSeqs ==
    [1 .. 2 -> Times] \cup UNION {NonDecreasing(n) : n \in 0 .. MaxLen}

SumFrolCpQuery ==
    /\ phase = "ready"
    /\ res.op = "none"
    /\ tt_result.kind = "ok"
    /\ \E change_points \in ChangePointSeqs, overflow_checks \in BOOLEAN :
           Answer("sum_frol_cp", change_points,
                  [out |-> SumFrolCp(tt_result.val, change_points, overflow_checks),
                   reads |-> <<>>])
    /\ Unchanged

GetValueQuery ==
    /\ phase = "ready"
    /\ res.op = "none"
    /\ dp_result.kind = "ok"
    /\ \E t \in Times, k \in Counts :
           Answer("get_value", <<t, k>>, GetValue(t, k, dp_result.val))
    /\ Unchanged

GetValueHistoryQuery ==
    /\ phase = "ready"
    /\ res.op = "none"
    /\ dp_result.kind = "ok"
    /\ \E t \in Times, k \in Counts :
           Answer("get_value_history", <<t, k>>,
                  GetValueHistory(t, k, dp_result.val))
    /\ Unchanged

---------------------------------------------------------------------------

Next ==
    \/ \E u \in Units(t_max) : CalcValueAllUnit(u)
    \/ CalcValueAllCollect
    \/ CalcMemoAll
    \/ CalcMemoCheck
    \/ CalcMemoBase
    \/ CalcMemoLoop
    \/ CalcMemoResume
    \/ CalcMemoSelect
    \/ CalcMemoAllNext
    \/ OrderChangePointQuery
    \/ CalcMaxKQuery
    \/ ValueTTQuery
    \/ SumFrolCpQuery
    \/ GetValueQuery
    \/ GetValueHistoryQuery
    \/ Discard

Spec == Init /\ [][Next]_vars

\* The runs whose tables have at least two rows.
InitMultiRow == Init /\ t_max >= 3

SpecMultiRow == InitMultiRow /\ [][Next]_vars

---------------------------------------------------------------------------
(* Vocabulary of the properties *)

\* floor((t - 1) / 2), for t >= 1.
FloorHalf(t) == (t - 1) \div 2

\* The ordering rule as the specification words it.
Accepted(t_prev, t_cur) ==
    t_cur >= 1 /\ (t_cur > t_prev + 1 \/ (t_prev = 0 /\ t_cur = 1))

\* The sequences c_1 < ... < c_k < t, written <<c_1, ..., c_k, t>>, of which
\* order_change_point accepts (0, c_1), every (c_j, c_j+1) and (c_k, t).
RECURSIVE ChainsTo(_, _)
ChainsTo(t, k) ==
    IF k = 0
    THEN IF OrderChangePoint(0, t).kind = "ok" THEN {<<t>>} ELSE {}
    ELSE {Append(c, t) :
            c \in UNION {ChainsTo(i, k - 1) :
                           i \in {j \in 1 .. t - 1 : OrderChangePoint(j, t).kind = "ok"}}}

\* The largest number of change points that fit before t.
MaxFit(t) ==
    CHOOSE k \in 0 .. t : ChainsTo(t, k) # {} /\ \A j \in k + 1 .. t : ChainsTo(t, j) = {}

\* The memo calc_memo_all works on, then the one it returned.
TheMemo == IF dp_result.kind = "ok" THEN dp_result.val ELSE memo

\* The cell of (t, k), for t - 2k inside row k.
CellOf(m, t, k) == At(At(m, k), t - 2 * k)

\* The pairs (t, k) that have a cell in the memo.
CellsOf(m) ==
    {tk \in (0 .. t_max) \X (0 .. Len(m) - 1) :
        tk[1] - 2 * tk[2] >= 0 /\ tk[1] - 2 * tk[2] + 1 <= Len(At(m, tk[2]))}

---------------------------------------------------------------------------
(* order_change_point and calc_max_k *)

\* C8: order_change_point(t_prev, t_cur) returns Ok exactly when t_cur >= 1
\* and (t_cur > t_prev + 1 or (t_prev, t_cur) = (0, 1)); so (0, 1) succeeds,
\* (1, 2) fails, (1, 3) succeeds and (x, 0) fails for every x; and the call
\* changes nothing of the program's state.
C8_OrderChangePointExact ==
    [][res'.op = "order_change_point" =>
        LET t_prev == res'.args[1]
            t_cur == res'.args[2]
        IN  /\ res'.out.kind \in {"ok", "err"}
            /\ res'.out.kind = "ok" <=> Accepted(t_prev, t_cur)
            /\ (t_prev = 0 /\ t_cur = 1) => res'.out.kind = "ok"
            /\ (t_prev = 1 /\ t_cur = 2) => res'.out.kind = "err"
            /\ (t_prev = 1 /\ t_cur = 3) => res'.out.kind = "ok"
            /\ t_cur = 0 => res'.out.kind = "err"
            /\ Unchanged]_vars

C8_Witness ==
    /\ res.op = "order_change_point"
    /\ res.args = <<0, 1>>
    /\ res.out.kind = "ok"

\* C9: for every t >= 1, calc_max_k(t) = floor((t - 1) / 2), and this is the
\* largest number of change points that fit before t under the spacing rule;
\* calc_max_k(5) = 2, calc_max_k(4) = 1, calc_max_k(1) = 0, calc_max_k(2) = 0.
C9_CalcMaxKIsMaxFit ==
    res.op = "calc_max_k" =>
        LET t == res.args[1]
        IN  /\ res.out.val = FloorHalf(t)
            /\ res.out.val = MaxFit(t)
            /\ t = 5 => res.out.val = 2
            /\ t = 4 => res.out.val = 1
            /\ t = 1 => res.out.val = 0
            /\ t = 2 => res.out.val = 0

C9_Witness ==
    /\ res.op = "calc_max_k"
    /\ res.args = <<5>>
    /\ res.out.val = 2
    /\ ChainsTo(5, 2) = {<<1, 3, 5>>}

---------------------------------------------------------------------------
(* Queries of the memo *)

\* C7: on a memo built by calc_memo_all(data, T_max), get_value(t, k) and
\* get_value_history(t, k) return an error value, and read no cell, for every
\* t in 1..=T_max with k > calc_max_k(t), for t = 0 (get_value) and for
\* t > T_max; the memo is unchanged by the failed query.
C7_InvalidQueryFails ==
    [][res'.op \in {"get_value", "get_value_history"} =>
        LET t == res'.args[1]
            k == res'.args[2]
        IN  (\/ (t >= 1 /\ t <= t_max /\ k > FloorHalf(t))
             \/ (t = 0 /\ res'.op = "get_value")
             \/ t > t_max)
            => /\ res'.out.kind = "err"
               /\ res'.reads = <<>>
               /\ dp_result' = dp_result
               /\ memo' = memo]_vars

C7_Witness ==
    /\ res.op = "get_value_history"
    /\ res.args = <<4, 2>>
    /\ t_max >= 5
    /\ res.out.kind = "err"
    /\ res.reads = <<>>

\* C2: after calc_memo_all(data, T_max) succeeds, for every k in
\* 0..=calc_max_k(T_max), get_value_history(T_max, k) terminates and succeeds
\* with cells c_0..c_k = (p_j, k - j, v_j): the visited times T_max, p_0, p_1,
\* ... strictly decrease and p_k = 0; the stored counts are k, k - 1, ..., 0;
\* v_0 = get_value(T_max, k); v_j = v_j+1 + calc_value(data, p_j, t_j) for
\* j < k (t_0 = T_max, t_j+1 = p_j) and v_k = calc_value(data, 0, t_k).
C2_HistoryChain ==
    (/\ res.op = "get_value_history"
     /\ res.args[1] = t_max
     /\ res.args[2] <= FloorHalf(t_max))
    => /\ res.out.kind = "ok"
       /\ LET k == res.args[2]
              c == res.out.val
              \* t_j, for j = 0 .. k, at TLA+ index j + 1
              t == [j \in 1 .. k + 1 |-> IF j = 1 THEN t_max ELSE c[j - 1][1]]
          IN  /\ Len(c) = k + 1
              /\ \A j \in 1 .. k + 1 :
                    /\ c[j][1] < t[j]
                    /\ c[j][2] = k - (j - 1)
              /\ c[k + 1][1] = 0
              /\ GetValue(t_max, k, dp_result.val).out = Ok(c[1][3])
              /\ \A j \in 1 .. k :
                    c[j][3] = c[j + 1][3] + CalcValue(data, c[j][1], t[j]).val
              /\ Ok(c[k + 1][3]) = CalcValue(data, 0, t[k + 1])

C2_Witness ==
    /\ res.op = "get_value_history"
    /\ res.args = <<7, 3>>
    /\ res.out.kind = "ok"
    /\ Len(res.out.val) = 4
    /\ res.out.val[1][3] > res.out.val[2][3]

---------------------------------------------------------------------------
(* The recurrence *)

\* The candidate value of predecessor i for the cell of (t, k), k > 0.
CandidateValue(m, i, t, k) == CellOf(m, i, k - 1).cell[3] + CalcValue(data, i, t).val

\* C3: for every cell (t, k) with k > 0 filled by calc_memo, the stored
\* predecessor is the largest index i in [2k - 1, t - 2] whose candidate
\* value (the value of cell (i, k - 1) plus calc_value(data, i, t)) equals
\* the maximum candidate value over that range.  (Every memo the program
\* reaches is held in a state with no query result: a query changes res
\* only, and it starts from such a state.)
C3_TieBreakLargest ==
    LET m == TheMemo
    IN  res.op = "none" =>
        \A k \in 1 .. Len(m) - 1 :
          \A t \in 2 * k .. t_max :
            CellOf(m, t, k).some =>
                LET p == CellOf(m, t, k).cell[1]
                    range == 2 * k - 1 .. t - 2
                    best == CandidateValue(m, p, t, k)
                IN  /\ p \in range
                    /\ \A i \in range :
                          /\ CellOf(m, i, k - 1).some
                          /\ CandidateValue(m, i, t, k) <= best
                          /\ CandidateValue(m, i, t, k) = best => i <= p

\* Two distinct predecessors of a filled cell tie for the maximum.
C3_Witness ==
    \E tk \in CellsOf(TheMemo) :
        LET t == tk[1]
            k == tk[2]
        IN  /\ k > 0
            /\ CellOf(TheMemo, t, k).some
            /\ \E i \in 2 * k - 1 .. t - 2 :
                  /\ i < CellOf(TheMemo, t, k).cell[1]
                  /\ CandidateValue(TheMemo, i, t, k) = CellOf(TheMemo, t, k).cell[3]

\* The evaluator that returns 1 for every segment.
Ones == data.a = 0 /\ data.b = 0 /\ data.c = 0 /\ data.d = 1 /\ data.min_len = 1

\* C4: with an evaluator that returns 1 for every segment, every k in
\* 0..=calc_max_k(T_max) has get_value(T_max, k) = k + 1, and
\* get_value_history(T_max, k) reconstructs the change points
\* {T_max - 2k, ..., T_max - 2, T_max}; for T_max = 6, get_value(6, 2) = 3
\* and the change points are {2, 4, 6}.
C4_OnesScenario ==
    (/\ Ones
     /\ res.op \in {"get_value", "get_value_history"}
     /\ res.args[1] = t_max
     /\ res.args[2] <= FloorHalf(t_max))
    => LET k == res.args[2]
       IN  /\ res.out.kind = "ok"
           /\ res.op = "get_value" => res.out.val = k + 1
           /\ res.op = "get_value_history" =>
                 \* the times visited: T_max, then each predecessor but the last
                 /\ Len(res.out.val) = k + 1
                 /\ {t_max} \cup {res.out.val[j][1] : j \in 1 .. k}
                        = {t_max - 2 * j : j \in 0 .. k}
                 /\ res.out.val[k + 1][1] = 0
                 /\ res.out.val[1][3] = k + 1
           /\ (t_max = 6 /\ k = 2 /\ res.op = "get_value_history") =>
                 {t_max} \cup {res.out.val[j][1] : j \in 1 .. k} = {2, 4, 6}

C4_Witness ==
    /\ Ones
    /\ t_max = 6
    /\ res.op = "get_value_history"
    /\ res.args = <<6, 2>>
    /\ res.out.kind = "ok"
    /\ res.out.val = << <<4, 2, 3>>, <<2, 1, 2>>, <<0, 0, 1>> >>

---------------------------------------------------------------------------
(* The pairwise table *)

\* C5: for a table built by calc_value_all(data, T_max), for every pair
\* (t_prev, t_cur) accepted by order_change_point with t_cur <= T_max (the
\* pair (0, 1) is one of them), value_tt(t_prev, t_cur) returns Ok with
\* exactly the value of calc_value(data, t_prev, t_cur).
C5_CachePurity ==
    (/\ res.op = "value_tt"
     /\ OrderChangePoint(res.args[1], res.args[2]).kind = "ok"
     /\ res.args[2] <= t_max
     /\ CalcValue(data, res.args[1], res.args[2]).kind = "ok")
    => res.out = CalcValue(data, res.args[1], res.args[2])

\* The same with the pair (0, 1) left out: what the table does hold.
CachePurityPastFirstPair ==
    (/\ res.op = "value_tt"
     /\ OrderChangePoint(res.args[1], res.args[2]).kind = "ok"
     /\ res.args[2] <= t_max
     /\ res.args # <<0, 1>>)
    => res.out = CalcValue(data, res.args[1], res.args[2])

\* C6: for a table built by calc_value_all(data, T_max), value_tt on a pair
\* accepted by order_change_point whose t_prev is beyond the last row
\* (t_prev > T_max - 2) or whose t_cur is beyond the row's last entry
\* (t_cur > T_max) returns an error value; it never panics.
C6_OutOfRangeIsError ==
    (/\ res.op = "value_tt"
     /\ OrderChangePoint(res.args[1], res.args[2]).kind = "ok"
     /\ (res.args[1] > t_max - 2 \/ res.args[2] > t_max))
    => res.out.kind = "err"

\* The sum of calc_value over the consecutive pairs of <<0>> \o cps.
RECURSIVE DirectSum(_, _)
DirectSum(prev, cps) ==
    IF cps = <<>>
    THEN 0
    ELSE CalcValue(data, prev, Head(cps)).val + DirectSum(Head(cps), Tail(cps))

\* Every consecutive pair of <<0>> \o cps is accepted and scored.
RECURSIVE AllPairsGood(_, _)
AllPairsGood(prev, cps) ==
    \/ cps = <<>>
    \/ /\ OrderChangePoint(prev, Head(cps)).kind = "ok"
       /\ CalcValue(data, prev, Head(cps)).kind = "ok"
       /\ AllPairsGood(Head(cps), Tail(cps))

\* C10: sum_frol_cp looks up the pairs (0, c_1), (c_1, c_2), ... with value_tt
\* and returns the sum of the values (the empty sum for the empty sequence);
\* if a lookup fails it returns that error and no total.  For every sequence
\* whose pairs are all accepted by order_change_point and lie within T_max,
\* the result is the sum of calc_value(data, t_prev, t_cur) over the pairs.
C10_SumFrolCp ==
    res.op = "sum_frol_cp" =>
        /\ res.out.kind \in {"ok", "err"}
        /\ (/\ AllPairsGood(0, res.args)
            /\ \A j \in 1 .. Len(res.args) : res.args[j] <= t_max)
           => res.out = Ok(DirectSum(0, res.args))

---------------------------------------------------------------------------
(* The optimum *)

Max(S) == CHOOSE x \in S : \A y \in S : y <= x

\* The best total of k change points and the end T_max, scored directly
\* with calc_value.
BruteForce(k) == Max({DirectSum(0, c) : c \in ChainsTo(t_max, k)})

\* C1: after calc_memo_all(data, T_max) succeeds, for every k in
\* 0..=calc_max_k(T_max), get_value(T_max, k) is the maximum of
\* sum_frol_cp(seq) over the sequences seq of k change points followed by
\* T_max of which order_change_point accepts every consecutive pair, starting
\* from the virtual start 0 (sum_frol_cp on the table of calc_value_all).
C1_DpIsBruteForceOfSumFrolCp ==
    (/\ phase = "ready"
     /\ res.op = "none"
     /\ dp_result.kind = "ok"
     /\ tt_result.kind = "ok")
    => \A k \in 0 .. FloorHalf(t_max), overflow_checks \in BOOLEAN :
          LET sums == {SumFrolCp(tt_result.val, c, overflow_checks) :
                          c \in ChainsTo(t_max, k)}
          IN  /\ \A r \in sums : r.kind = "ok"
              /\ GetValue(t_max, k, dp_result.val).out = Ok(Max({r.val : r \in sums}))

\* The memo does hold the optimum of the directly scored totals.
DpIsBruteForceOfCalcValue ==
    (/\ phase = "ready"
     /\ res.op = "none"
     /\ dp_result.kind = "ok")
    => \A k \in 0 .. FloorHalf(t_max) :
          GetValue(t_max, k, dp_result.val).out = Ok(BruteForce(k))

---------------------------------------------------------------------------
(* The parallel build of the table *)

\* The pairs (t_prev, t_cur) calc_value_all hands to the evaluator.
BuildPairs == {p \in (0 .. t_max - 2) \X (2 .. t_max) : p[2] >= p[1] + 2}

\* C11: calc_value_all processes each t_prev in 0..T_max-1 as an independent
\* parallel unit; whatever the order in which the units run and complete,
\* when every evaluator call succeeds the returned table is the same: row
\* t_prev holds calc_value(data, t_prev, t_cur) for t_cur = t_prev+2..=T_max
\* in increasing order, and the rows are in increasing order of t_prev; when
\* an evaluator call of any unit fails, the build returns exactly one error
\* and no table.  (No step after the collect changes tt_result, and a query
\* starts from a state with no query result.)
C11_ParallelBuildDeterministic ==
    /\ phase = "build" =>
          \A u \in Units(t_max) :
              tt_units[u].kind = "ok" =>
                  /\ Len(tt_units[u].val) = t_max - u - 1
                  /\ \A t_cur \in u + 2 .. t_max :
                        At(tt_units[u].val, t_cur - u - 2) = CalcValue(data, u, t_cur).val
    /\ (phase # "build" /\ res.op = "none") =>
          IF \A p \in BuildPairs : CalcValue(data, p[1], p[2]).kind = "ok"
          THEN /\ tt_result.kind = "ok"
               /\ Len(tt_result.val) = t_max - 1
               /\ \A t_prev \in 0 .. t_max - 2 :
                     /\ Len(At(tt_result.val, t_prev)) = t_max - t_prev - 1
                     /\ \A t_cur \in t_prev + 2 .. t_max :
                           At(At(tt_result.val, t_prev), t_cur - t_prev - 2)
                               = CalcValue(data, t_prev, t_cur).val
          ELSE /\ tt_result.kind = "err"
               /\ DOMAIN tt_result = {"kind", "message", "args"}
               /\ \E p \in BuildPairs : tt_result = CalcValue(data, p[1], p[2])

\* A table of several rows of different contents was returned.
C11_Witness ==
    /\ phase = "built"
    /\ t_max >= 4
    /\ tt_result.kind = "ok"
    /\ Len(tt_result.val) = t_max - 1
    /\ At(At(tt_result.val, 0), 0) # At(At(tt_result.val, 1), 0)

\* C12: in the 2-D array returned by calc_value_all (and exposed by
\* value_tt_all), the value f(t_k, t_{k-1}) of two consecutive change points
\* t_{k-1}, t_k is stored at index [t_{k-1}][t_k - (t_{k-1} + 1)], as the doc
\* comments of value_tt_all and calc_value_all state.
C12_DocumentedIndex ==
    tt_result.kind = "ok" =>
        \A p \in BuildPairs :
            LET row == At(tt_result.val, p[1])
                idx == p[2] - (p[1] + 1)
            IN  /\ idx < Len(row)
                /\ At(row, idx) = CalcValue(data, p[1], p[2]).val

\* Where calc_value_all does store them: one place to the left.
StoredIndex ==
    tt_result.kind = "ok" =>
        \A p \in BuildPairs :
            LET row == At(tt_result.val, p[1])
                idx == p[2] - (p[1] + 1) - 1
            IN  /\ idx < Len(row)
                /\ At(row, idx) = CalcValue(data, p[1], p[2]).val

---------------------------------------------------------------------------
(* The memo during the fill *)

\* The filled cells of a memo.
Filled(m) == {tk \in CellsOf(m) : CellOf(m, tk[1], tk[2]).some}

\* C13: during calc_memo_all(data, T_max), across all the root calls
\* k = 0..=calc_max_k(T_max) and their recursive sub-calls, a memo cell goes
\* from unfilled to filled once: set_from_memo is never applied to a cell
\* that is already filled, a cell changes only by that call, and once a cell
\* is filled its content (predecessor, k, value) never changes for the rest
\* of the fill, up to the memo that is returned.
C13_WriteOnce ==
    [][phase = "fill" =>
        LET after == IF dp_result'.kind = "ok" THEN dp_result'.val ELSE memo'
            dropped == phase' = "ready" /\ dp_result'.kind # "ok"
        IN  /\ effect'.set # <<>> =>
                  /\ effect'.set \in CellsOf(memo)
                  /\ effect'.set \notin Filled(memo)
                  /\ effect'.set \in Filled(after)
            /\ ~dropped =>
                  /\ CellsOf(after) = CellsOf(memo)
                  /\ \A tk \in Filled(memo) :
                        CellOf(after, tk[1], tk[2]) = CellOf(memo, tk[1], tk[2])
                  /\ Filled(after) \ Filled(memo) =
                        IF effect'.set = <<>> THEN {} ELSE {effect'.set}]_vars

\* set_from_memo has just filled a cell of two change points, after others.
C13_Witness ==
    /\ phase = "fill"
    /\ effect.set # <<>>
    /\ effect.set[2] = 2
    /\ effect.set \in Filled(memo)
    /\ Cardinality(Filled(memo)) >= 5

---------------------------------------------------------------------------
(* The cells the fill reaches *)

\* calc_memo_all has returned a memo and the host program holds no query
\* result.  (Every such memo is held in a state with no query result.)
Solved == phase = "ready" /\ res.op = "none" /\ dp_result.kind = "ok"

\* The candidate predecessors of the cell of (t, k), k > 0.
Predecessors(t, k) == 2 * k - 1 .. t - 2

\* The optimum of k change points before the end t, by the recurrence.
RECURSIVE Optimum(_, _)
Optimum(t, k) ==
    IF k = 0
    THEN CalcValue(data, 0, t).val
    ELSE Max({Optimum(i, k - 1) + CalcValue(data, i, t).val : i \in Predecessors(t, k)})

\* The cells on some optimal path that ends at (t, k): the cell itself, and
\* the cells on the optimal paths of its optimal predecessors.
RECURSIVE OnOptimalPath(_, _)
OnOptimalPath(t, k) ==
    {<<t, k>>} \cup
    IF k = 0
    THEN {}
    ELSE UNION {OnOptimalPath(i, k - 1) :
                  i \in {j \in Predecessors(t, k) :
                           Optimum(j, k - 1) + CalcValue(data, j, t).val = Optimum(t, k)}}

\* The cells on some path of candidates that ends at (t, k), optimal or not.
RECURSIVE OnCandidatePath(_, _)
OnCandidatePath(t, k) ==
    {<<t, k>>} \cup
    IF k = 0
    THEN {}
    ELSE UNION {OnCandidatePath(i, k - 1) : i \in Predecessors(t, k)}

\* C14 as stated: after calc_memo_all(data, T_max) succeeds, the filled cells
\* are exactly the cells (t, k') with k' <= k that are reachable as
\* predecessors along some optimal path ending at (T_max, k), for the
\* requested k; every cell that is on no such path remains unfilled.
C14_OnlyOptimalPathsFilled ==
    Solved =>
        Filled(dp_result.val) =
            UNION {OnOptimalPath(t_max, k) : k \in 0 .. FloorHalf(t_max)}

\* C14 amended: after calc_memo_all(data, T_max) succeeds, the filled cells
\* are exactly the cells reachable from (T_max, k), for the requested k, by
\* going from a cell (t, k') to any of its candidate predecessors (i, k' - 1),
\* i in [2k' - 1, t - 2], whether or not i attains the optimum of (t, k');
\* every other cell remains unfilled.
C14_EveryCandidatePathFilled ==
    Solved =>
        Filled(dp_result.val) =
            UNION {OnCandidatePath(t_max, k) : k \in 0 .. FloorHalf(t_max)}

\* A memo with a filled cell that is on no optimal path.
C14_Witness ==
    /\ Solved
    /\ t_max >= 5
    /\ \E tk \in Filled(dp_result.val) :
          tk \notin UNION {OnOptimalPath(t_max, k) : k \in 0 .. FloorHalf(t_max)}

\* C15: after calc_memo_all(data, T_max) succeeds, whatever the values of the
\* evaluator, cell (t, k) is filled if and only if either t = T_max and
\* k <= calc_max_k(T_max), or k < calc_max_k(T_max) and 2k+1 <= t <= T_max-2.
\* In particular no cell at t = T_max - 1 is ever filled, so
\* get_value(T_max - 1, k) fails with the 'not calculated yet' error for
\* every k <= calc_max_k(T_max - 1), while get_value(T_max, k) succeeds for
\* every k <= calc_max_k(T_max).  (A query leaves the memo as it is.)
C15_FilledCellsClosedForm ==
    /\ res.op = "none" => \A tk \in Filled(TheMemo) : tk[1] # t_max - 1
    /\ Solved =>
          \A tk \in CellsOf(dp_result.val) :
              LET t == tk[1]
                  k == tk[2]
              IN  tk \in Filled(dp_result.val) <=>
                     \/ t = t_max /\ k <= FloorHalf(t_max)
                     \/ k < FloorHalf(t_max) /\ 2 * k + 1 <= t /\ t <= t_max - 2
    /\ (phase = "ready" /\ dp_result.kind = "ok" /\ res.op = "get_value") =>
          LET t == res.args[1]
              k == res.args[2]
          IN  /\ (t = t_max - 1 /\ k <= FloorHalf(t_max - 1)) =>
                     res.out = Err("Value has not calculated yet.", <<>>)
              /\ (t = t_max /\ k <= FloorHalf(t_max)) => res.out.kind = "ok"

\* get_value(T_max - 1, 1) was asked of a memo of three rows.
C15_Witness ==
    /\ phase = "ready"
    /\ dp_result.kind = "ok"
    /\ t_max >= 5
    /\ res.op = "get_value"
    /\ res.args = <<t_max - 1, 1>>
    /\ res.out = Err("Value has not calculated yet.", <<>>)
    /\ Cardinality(Filled(dp_result.val)) > FloorHalf(t_max) + 1

\* C16: in every state during and after calc_memo_all, each filled cell at
\* (t, k) holds a triple (p, k_stored, v) with k_stored = k; if k = 0 then
\* p = 0 and v = calc_value(data, 0, t); if k > 0 then 2k-1 <= p <= t-2, the
\* cell (p, k-1) is already filled, and v = value of cell (p, k-1) +
\* calc_value(data, p, t), which is the maximum of that sum over all the
\* predecessors in [2k-1, t-2].  (Query states hold the memo of the state
\* with no query result they started from.)
C16_CellInvariant ==
    res.op = "none" =>
        LET m == TheMemo
        IN  \A tk \in Filled(m) :
                LET t == tk[1]
                    k == tk[2]
                    p == CellOf(m, t, k).cell[1]
                    k_stored == CellOf(m, t, k).cell[2]
                    v == CellOf(m, t, k).cell[3]
                IN  /\ k_stored = k
                    /\ k = 0 => /\ p = 0
                                /\ Ok(v) = CalcValue(data, 0, t)
                    /\ k > 0 => /\ p \in Predecessors(t, k)
                                /\ <<p, k - 1>> \in Filled(m)
                                /\ CalcValue(data, p, t).kind = "ok"
                                /\ v = CandidateValue(m, p, t, k)
                                /\ \A i \in Predecessors(t, k) :
                                      /\ <<i, k - 1>> \in Filled(m)
                                      /\ CandidateValue(m, i, t, k) <= v

\* In the middle of the fill, a filled cell of k > 0 whose first candidate is
\* worse than the stored one.
C16_Witness ==
    /\ phase = "fill"
    /\ stack # <<>>
    /\ \E tk \in Filled(memo) :
          /\ tk[2] >= 1
          /\ CandidateValue(memo, 2 * tk[2] - 1, tk[1], tk[2])
                < CellOf(memo, tk[1], tk[2]).cell[3]

---------------------------------------------------------------------------
(* Failures of the fill *)

\* The messages of check_idx_memo.
IndexMessages ==
    {"Time step t is out of range.",
     "Time step must be greater than 0",
     "The number of change point k must be less than ceil( (t-1)/2 )."}

\* The message of the empty-candidate failure of calc_memo.
EmptyMessage == "Failed to compute dynamic programming memo."

\* C17: the empty-candidate failure of the recurrence is unreachable: for
\* every (t, k) with k > 0 that passes the index validation (1 <= t <= T_max
\* and k <= calc_max_k(t)), the candidate range [2k-1, t-2] is non-empty and
\* every candidate (i, k-1) in it passes the validation too; so calc_memo
\* never returns the 'Failed to compute dynamic programming memo' error and
\* no recursive sub-call fails the validation.  (A query leaves the memo as
\* it is.)
C17_NoEmptyCandidates ==
    /\ (TheMemo # <<>> /\ res.op = "none") =>
          \A t \in 0 .. t_max + 1, k \in 1 .. FloorHalf(t_max) + 1 :
              CheckIdxMemo(t, k, TheMemo).kind = "ok" =>
                  /\ 1 <= t /\ t <= t_max /\ k <= FloorHalf(t)
                  /\ Predecessors(t, k) # {}
                  /\ \A i \in Predecessors(t, k) :
                        CheckIdxMemo(i, k - 1, TheMemo).kind = "ok"
    /\ \A r \in {ret, dp_result} :
          /\ r.kind # "panic"
          /\ r.kind = "err" => r.message \notin IndexMessages \cup {EmptyMessage}
    /\ (phase = "fill" /\ stack # <<>> /\ Top.pc = "loop" /\ Top.i >= LoopEnd(Top.t))
          => Top.vals # <<>>

\* The smallest cell of k > 0, (2k + 1, k), is about to select among its
\* candidates: there is exactly one.
C17_Witness ==
    /\ phase = "fill"
    /\ stack # <<>>
    /\ Top.k >= 1
    /\ Top.t = 2 * Top.k + 1
    /\ Top.pc = "loop"
    /\ Top.i >= LoopEnd(Top.t)
    /\ Len(Top.vals) = 1

\* C18: if a calc_value call made during calc_memo_all(data, T_max) fails,
\* calc_memo_all returns that same error immediately: no further evaluator
\* call is made, no further memo cell is written after the failure, the cell
\* being computed at the time of the failure is left unfilled, there is no
\* retry, and no (partial) memo is returned to the caller.
C18_FailurePassThrough ==
    [][phase = "fill" =>
        /\ (effect'.eval # <<>> /\ effect'.eval[3].kind # "ok") =>
              /\ ret' = effect'.eval[3]
              /\ effect'.set = <<>>
              /\ memo' = memo
              /\ stack' = SubSeq(stack, 1, Len(stack) - 1)
              /\ \A j \in 1 .. Len(stack) :
                    <<stack[j].t, stack[j].k>> \notin Filled(memo')
        /\ ret.kind = "err" =>
              /\ effect' = NoEffect
              /\ IF stack # <<>>
                 THEN /\ phase' = "fill"
                      /\ ret' = ret
                      /\ stack' = SubSeq(stack, 1, Len(stack) - 1)
                      /\ memo' = memo
                      /\ dp_result' = dp_result
                 ELSE /\ phase' = "ready"
                      /\ dp_result' = ret
                      /\ DOMAIN dp_result' = {"kind", "message", "args"}
                      /\ memo' = <<>>]_vars

\* The evaluator has just failed on a candidate (i, t), i > 0, after cells
\* were filled and candidates collected.
C18_Witness ==
    /\ phase = "fill"
    /\ effect.eval # <<>>
    /\ effect.eval[1] >= 1
    /\ effect.eval[3].kind = "err"
    /\ ret = effect.eval[3]
    /\ Cardinality(Filled(memo)) >= 3
    /\ <<effect.eval[2], 1>> \notin Filled(memo)

\* The failure of a recursive sub-call is on its way through its caller.
FailureInSubCall ==
    /\ phase = "fill"
    /\ ret.kind = "err"
    /\ stack # <<>>

---------------------------------------------------------------------------
(* Index safety of the memo *)

\* C19: on a table allocated by calc_memo_all for T_max >= 1 (row k of length
\* T_max - 2k + 1 for k = 0..=calc_max_k(T_max)), every (t, k) that passes
\* check_idx_memo satisfies k < number of rows and 0 <= t - 2k < length of
\* row k; so get_from_memo and set_from_memo never index outside the table
\* and t - 2k never underflows, for any sequence of fill and query
\* operations.  (A query leaves the table as it is, so the table of a state
\* with a query result is that of the state the query started from.)
C19_MemoIndexSafety ==
    LET m == TheMemo
    IN  /\ (m # <<>> /\ res.op = "none") =>
              /\ Len(m) = FloorHalf(t_max) + 1
              /\ \A k \in 0 .. FloorHalf(t_max) : Len(At(m, k)) = t_max - 2 * k + 1
              /\ \A t \in 0 .. t_max + 2, k \in 0 .. FloorHalf(t_max) + 2 :
                    CheckIdxMemo(t, k, m).kind = "ok" =>
                        /\ k < Len(m)
                        /\ 0 <= t - 2 * k
                        /\ t - 2 * k < Len(At(m, k))
                        /\ GetFromMemo(t, k, m).out.kind = "ok"
                        /\ SetFromMemo(t, <<0, k, 0>>, m).out.kind = "ok"
        /\ ret.kind # "panic"
        /\ dp_result.kind # "panic"
        /\ res.op \in {"get_value", "get_value_history"} =>
              /\ res.out.kind # "panic"
              /\ \A j \in 1 .. Len(res.reads) :
                    /\ res.reads[j][1] < Len(m)
                    /\ res.reads[j][2] >= 0
                    /\ res.reads[j][2] < Len(At(m, res.reads[j][1]))

\* get_value read the last cell of the last row.
C19_Witness ==
    /\ phase = "ready"
    /\ dp_result.kind = "ok"
    /\ t_max >= 5
    /\ res.op = "get_value"
    /\ res.args = <<t_max, FloorHalf(t_max)>>
    /\ res.reads = << <<FloorHalf(t_max), t_max - 2 * FloorHalf(t_max)>> >>
    /\ Len(At(dp_result.val, FloorHalf(t_max))) = t_max - 2 * FloorHalf(t_max) + 1
    /\ res.out.kind = "ok"

===========================================================================
